---- MODULE Spec2Model ----
(***************************************************************************)
(* A model of ontology/scripts/convert_ontologies.py: the pipeline driver  *)
(* (run, convert_file, load_graph, serialise_graph, render_html), the      *)
(* metadata extractor (collect_ontology_info, collect_classes,             *)
(* collect_properties, literal_by_lang, property_kind, qname) and prefix   *)
(* registration (ensure_common_prefixes, ensure_default_prefix).           *)
(*                                                                         *)
(* Strings are sequences of one-character strings, so that str.lower(),    *)
(* str.endswith(), concatenation and Python's string ordering are computed *)
(* rather than assumed.                                                    *)
(***************************************************************************)
EXTENDS Naturals, Sequences, FiniteSets, TLC

VARIABLES
    \* ---- pipeline driver (run) ----
    template_exists,  \* template_path.exists()
    tree,             \* the entries below source_dir: [rel, isDir]
    basis,            \* args.basis after lstrip(".").lower()
    pc,               \* position of the run
    source_files,     \* sorted(source_dir.rglob(basis_pattern))
    idx,              \* index of the file the for loop is at
    destDirs,         \* directories created by mkdir
    written,          \* artefacts written, in order: [src, path]
    trace,            \* stage events, in order: [src, op, by]
    stdout,           \* kinds of the lines printed, in order
    ret,              \* <<v>> once run returned v, <<>> before
    exc,              \* the exception that left run ("none" if none)
    \* ---- one parsed graph (load_graph / render_html on it) ----
    g,                \* the triples of the graph
    revIter,          \* which of the two modelled iteration orders the store uses
    nm,               \* the namespace manager's bindings: set of <<prefix, namespace>>
    fileNm,           \* the bindings the source file itself defined
    raisesOn,         \* terms on which normalizeUri raises
    gpc,              \* position of the work on the graph
    header,           \* last result of collect_ontology_info
    classes,          \* last result of collect_classes
    prevClasses,      \* the result of the collect_classes run before it
    properties,       \* last result of collect_properties
    qterm,            \* the term qname was last called with
    qres              \* what qname returned for it

runVars == <<template_exists, tree, basis, pc, source_files, idx, destDirs,
             written, trace, stdout, ret, exc>>
graphVars == <<g, revIter, nm, fileNm, raisesOn, gpc, header, classes,
               prevClasses, properties, qterm, qres>>
vars == <<runVars, graphVars>>

-----------------------------------------------------------------------------
(* Bounds of the model. *)

\* how many entries the source tree holds at most
MaxFiles == 2

\* how many triples a modelled graph holds at most
MaxTriples == 4

\* how many prefixes the source file defines at most
MaxBindings == 2

-----------------------------------------------------------------------------
(* Python strings. *)

\* the characters used, in code-point order
Chars == <<"#", "/", "1", "2", "3", "4", ":", "<", ">", "A", "B", "C", "a", "b",
           "c", "d", "e", "f", "g", "h", "i", "j", "k", "l", "m", "n", "o",
           "p", "q", "r", "s", "t", "u", "v", "w", "x", "y", "z">>

Digits == {"1", "2", "3", "4"}

UpperCase == {"A", "B", "C"}

LowerCase == {"a", "b", "c", "d", "e", "f", "g", "h", "i", "j", "k", "l", "m",
              "n", "o", "p", "q", "r", "s", "t", "u", "v", "w", "x", "y", "z"}

\* str.lower(), character by character
ToLower == ("A" :> "a") @@ ("B" :> "b") @@ ("C" :> "c")

Lower(s) == [i \in 1..Len(s) |-> IF s[i] \in DOMAIN ToLower THEN ToLower[s[i]] ELSE s[i]]

\* str.endswith(("#", "/"))
EndsWithHashOrSlash(s) == Len(s) > 0 /\ s[Len(s)] \in {"#", "/"}

CodeOf == [c \in {Chars[i] : i \in 1..Len(Chars)} |->
             CHOOSE i \in 1..Len(Chars) : Chars[i] = c]

\* s < t for two strings (lexicographic by code point)
RECURSIVE StrLess(_, _)
StrLess(s, t) ==
    IF t = <<>> THEN FALSE
    ELSE IF s = <<>> THEN TRUE
    ELSE IF s[1] = t[1] THEN StrLess(Tail(s), Tail(t))
    ELSE CodeOf[s[1]] < CodeOf[t[1]]

\* s < t for two sequences of strings (tuples and lists of strings)
RECURSIVE SeqLess(_, _)
SeqLess(s, t) ==
    IF t = <<>> THEN FALSE
    ELSE IF s = <<>> THEN TRUE
    ELSE IF s[1] = t[1] THEN SeqLess(Tail(s), Tail(t))
    ELSE StrLess(s[1], t[1])

Range(s) == {s[i] : i \in 1..Len(s)}

Last(s) == s[Len(s)]

Front(s) == SubSeq(s, 1, Len(s) - 1)

\* sorted(S) for a set of sequences of strings
RECURSIVE SortedSeqs(_)
SortedSeqs(S) ==
    IF S = {} THEN <<>>
    ELSE LET m == CHOOSE x \in S : \A y \in S \ {x} : SeqLess(x, y)
         IN  <<m>> \o SortedSeqs(S \ {m})

-----------------------------------------------------------------------------
(* Paths: a path is the sequence of its parts; a file name is kept as the  *)
(* sequence of its dot-separated pieces, so a.b.ttl is <<a, b, ttl>>.      *)

s_a == <<"a">>
s_b == <<"b">>
s_sub == <<"s", "u", "b">>
s_ttl == <<"t", "t", "l">>
s_owl == <<"o", "w", "l">>
s_txt == <<"t", "x", "t">>
s_jsonld == <<"j", "s", "o", "n", "l", "d">>
s_json == <<"j", "s", "o", "n">>
s_rdf == <<"r", "d", "f">>
s_xml == <<"x", "m", "l">>
s_html == <<"h", "t", "m", "l">>

\* the names of the parse formats
FORMAT_BY_EXT ==
    (s_ttl :> "turtle") @@ (s_jsonld :> "json-ld") @@ (s_json :> "json-ld")
    @@ (s_owl :> "xml") @@ (s_rdf :> "xml") @@ (s_xml :> "xml")

\* a relative path: the directories it lies in and its name
RelPath(dirs, name) == [dirs |-> dirs, name |-> name]

\* the order of pathlib paths: by parts, the name compared as one string
\* (a dot sorts before every letter, so piecewise comparison agrees)
PathKey(r) == r.dirs \o r.name

\* path.suffix of the last part ("" when the name has no dot)
Suffix(r) == IF Len(r.name) >= 2 THEN Last(r.name) ELSE <<>>

\* path.stem of the last part
Stem(r) == IF Len(r.name) >= 2 THEN Front(r.name) ELSE r.name

\* the entries a source tree may hold
Candidates ==
    { [rel |-> RelPath(<<>>, <<s_a, s_ttl>>), isDir |-> FALSE],
      [rel |-> RelPath(<<>>, <<s_a, s_b, s_ttl>>), isDir |-> FALSE],
      [rel |-> RelPath(<<s_sub>>, <<s_a, s_ttl>>), isDir |-> FALSE],
      [rel |-> RelPath(<<s_sub>>, <<s_b, s_owl>>), isDir |-> FALSE],
      [rel |-> RelPath(<<>>, <<s_b, s_txt>>), isDir |-> FALSE],
      [rel |-> RelPath(<<>>, <<s_b, s_ttl>>), isDir |-> TRUE] }

Bases == {s_ttl, s_txt}

-----------------------------------------------------------------------------
(* The pipeline driver: run and what it calls. *)

\* source_dir.rglob("*." + basis): every entry, file or directory, whose
\* name ends in "." + basis
Rglob(t, b) == {e \in t : Len(e.rel.name) >= 2 /\ Last(e.rel.name) = b}

\* sorted(source_dir.rglob(basis_pattern))
Discovered(t, b) ==
    LET found == Rglob(t, b)
        keys == SortedSeqs({PathKey(e.rel) : e \in found})
    IN  [i \in 1..Len(keys) |-> CHOOSE e \in found : PathKey(e.rel) = keys[i]]

\* a run that never takes the no-input branch
NoSourceFilesSkipped(sf) == FALSE

\* "if not source_files"
NoSourceFiles(sf) == Len(sf) = 0

\* path.relative_to(source_dir)
RelativeTo(e) == e.rel

\* a destination that does not mirror the source: deployment_dir itself
DestDirFlat(relative) == <<>>

\* dest_dir = deployment_dir / relative.parent (as parts below deployment_dir)
DestDir(relative) == relative.dirs

\* dest_dir / f"{base_name}.{ext}"
Artefact(dest_dir, base_name, ext) == [dirs |-> dest_dir, name |-> base_name \o <<ext>>]

\* mkdir(parents=True, exist_ok=True): the directory and its ancestors
Mkdir(dirs, d) == dirs \cup {SubSeq(d, 1, k) : k \in 0..Len(d)}

\* the first two serialize calls exchanged
SerialiseOrderSwapped == <<s_jsonld, s_ttl, s_owl>>

\* the order in which serialise_graph writes
SerialiseOrder == <<s_ttl, s_jsonld, s_owl>>

\* the positions of the run inside serialise_graph, one per serialize call
SerialisePcs == <<"serialise_1", "serialise_2", "serialise_3">>

\* the event recorded for the writing of an artefact
WriteOp ==
    (s_ttl :> "write_ttl") @@ (s_jsonld :> "write_jsonld")
    @@ (s_owl :> "write_owl") @@ (s_html :> "write_html")

Cur == source_files[idx]

Event(op, by) == [src |-> RelativeTo(Cur), op |-> op, by |-> by]

\* an exception caught per file: the loop goes on with the next file
RaiseIsolated(kind) ==
    /\ exc' = kind
    /\ pc' = "loop"
    /\ idx' = idx + 1
    /\ UNCHANGED <<template_exists, tree, basis, source_files, destDirs,
                   written, trace, stdout, ret>>

\* an exception no handler catches: it leaves convert_file and run at once
Raise(kind) ==
    /\ exc' = kind
    /\ pc' = "aborted"
    /\ UNCHANGED <<template_exists, tree, basis, source_files, idx, destDirs,
                   written, trace, stdout, ret>>

\* a step that only moves on and records what ran
Step(next, evs) ==
    /\ pc' = next
    /\ trace' = trace \o evs
    /\ UNCHANGED <<template_exists, tree, basis, source_files, idx, destDirs,
                   written, stdout, ret, exc>>

\* if not template_path.exists(): raise FileNotFoundError
CheckTemplate ==
    /\ pc = "run"
    /\ IF template_exists
       THEN /\ pc' = "discover"
            /\ UNCHANGED <<template_exists, tree, basis, source_files, idx,
                           destDirs, written, trace, stdout, ret, exc>>
       ELSE Raise("FileNotFoundError")

\* source_files = sorted(rglob); if none: print and return 1
Discover ==
    /\ pc = "discover"
    /\ source_files' = Discovered(tree, basis)
    /\ IF NoSourceFiles(source_files')
       THEN /\ stdout' = Append(stdout, "No source files")
            /\ ret' = <<1>>
            /\ pc' = "returned"
       ELSE /\ stdout' = Append(stdout, "Converting")
            /\ ret' = ret
            /\ pc' = "mkdir"
    /\ UNCHANGED <<template_exists, tree, basis, idx, destDirs, written,
                   trace, exc>>

\* deployment_dir.mkdir(parents=True, exist_ok=True)
MkdirDeployment ==
    /\ pc = "mkdir"
    /\ destDirs' = Mkdir(destDirs, <<>>)
    /\ idx' = 1
    /\ pc' = "loop"
    /\ UNCHANGED <<template_exists, tree, basis, source_files, written,
                   trace, stdout, ret, exc>>

\* for path in source_files: print the path; after the loop print the
\* success line and return 0
Loop ==
    /\ pc = "loop"
    /\ IF idx <= Len(source_files)
       THEN /\ stdout' = Append(stdout, "- path")
            /\ pc' = "load_graph"
            /\ ret' = ret
       ELSE /\ stdout' = Append(stdout, "Finished")
            /\ pc' = "returned"
            /\ ret' = <<0>>
    /\ UNCHANGED <<template_exists, tree, basis, source_files, idx, destDirs,
                   written, trace, exc>>

\* load_graph: fmt = FORMAT_BY_EXT.get(path.suffix.lower()); None raises
LoadGraphFormat ==
    /\ pc = "load_graph"
    /\ IF Suffix(Cur.rel) \in DOMAIN FORMAT_BY_EXT
       THEN Step("parse", <<>>)
       ELSE Raise("ValueError")

\* g = Graph(); g.parse(path, format=fmt): fails on a directory, and on
\* content the parser rejects
Parse ==
    /\ pc = "parse"
    /\ \E ok \in BOOLEAN :
         IF ok /\ ~Cur.isDir
         THEN Step("ensure_common_prefixes", <<Event("parse", "load_graph")>>)
         ELSE Raise("ParseError")

\* ensure_common_prefixes(g)
LoadCommonPrefixes ==
    /\ pc = "ensure_common_prefixes"
    /\ Step("load_header", <<Event("ensure_common_prefixes", "load_graph")>>)

\* header = collect_ontology_info(g)
LoadHeader ==
    /\ pc = "load_header"
    /\ Step("ensure_default_prefix", <<Event("collect_ontology_info", "load_graph")>>)

\* ensure_default_prefix(g, header.iri); return g
LoadDefaultPrefix ==
    /\ pc = "ensure_default_prefix"
    /\ Step("serialise_mkdir", <<Event("ensure_default_prefix", "load_graph"),
                                 Event("loaded", "convert_file")>>)

\* serialise_graph: dest_dir.mkdir(parents=True, exist_ok=True)
SerialiseMkdir ==
    /\ pc = "serialise_mkdir"
    /\ destDirs' = Mkdir(destDirs, DestDir(RelativeTo(Cur)))
    /\ pc' = SerialisePcs[1]
    /\ UNCHANGED <<template_exists, tree, basis, source_files, idx, written,
                   trace, stdout, ret, exc>>

\* graph.serialize(destination=outputs[...], format=...), three times
Serialise ==
    /\ pc \in Range(SerialisePcs)
    /\ LET k == CHOOSE i \in 1..Len(SerialisePcs) : SerialisePcs[i] = pc
           ext == SerialiseOrder[k]
           out == Artefact(DestDir(RelativeTo(Cur)), Stem(RelativeTo(Cur)), ext)
       IN  \E ok \in BOOLEAN :
             IF ok
             THEN /\ written' = Append(written, [src |-> RelativeTo(Cur), path |-> out])
                  /\ trace' = Append(trace, Event(WriteOp[ext], "serialise_graph"))
                  /\ pc' = IF k < Len(SerialiseOrder) THEN SerialisePcs[k + 1]
                           ELSE "get_template"
                  /\ UNCHANGED <<template_exists, tree, basis, source_files,
                                 idx, destDirs, stdout, ret, exc>>
             ELSE Raise("SerializationError")

\* render_html: env.get_template(template_path.name)
GetTemplate ==
    /\ pc = "get_template"
    /\ \E ok \in BOOLEAN :
         IF ok THEN Step("extract", <<Event("get_template", "render_html")>>)
         ELSE Raise("TemplateError")

\* render_html: the four collect calls
Extract ==
    /\ pc = "extract"
    /\ Step("render", <<Event("collect_ontology_info", "render_html"),
                        Event("collect_classes", "render_html"),
                        Event("collect_properties", "render_html"),
                        Event("compute_used_prefixes", "render_html")>>)

\* render_html: html = tmpl.render(...)
Render ==
    /\ pc = "render"
    /\ \E ok \in BOOLEAN :
         IF ok THEN Step("write_html", <<Event("render", "render_html")>>)
         ELSE Raise("TemplateError")

\* render_html: output_path.parent.mkdir(...); output_path.write_text(html)
WriteHtml ==
    /\ pc = "write_html"
    /\ LET html_path == Artefact(DestDir(RelativeTo(Cur)), Stem(RelativeTo(Cur)), s_html)
       IN  /\ destDirs' = Mkdir(destDirs, html_path.dirs)
           /\ written' = Append(written, [src |-> RelativeTo(Cur), path |-> html_path])
           /\ trace' = Append(trace, Event(WriteOp[s_html], "render_html"))
    /\ pc' = "print_outputs"
    /\ UNCHANGED <<template_exists, tree, basis, source_files, idx, stdout,
                   ret, exc>>

\* back in run: print every output of the file, then the next file
PrintOutputs ==
    /\ pc = "print_outputs"
    /\ stdout' = Append(stdout, "outputs")
    /\ idx' = idx + 1
    /\ pc' = "loop"
    /\ UNCHANGED <<template_exists, tree, basis, source_files, destDirs,
                   written, trace, ret, exc>>

GraphIdle ==
    /\ g = {} /\ revIter = FALSE /\ nm = {} /\ fileNm = {} /\ raisesOn = {}
    /\ gpc = "off" /\ header = <<>> /\ classes = <<>> /\ prevClasses = <<>>
    /\ properties = <<>> /\ qterm = <<>> /\ qres = <<>>

Init ==
    /\ template_exists \in BOOLEAN
    /\ tree \in {t \in SUBSET Candidates : Cardinality(t) <= MaxFiles}
    /\ basis \in Bases
    /\ pc = "run"
    /\ source_files = <<>>
    /\ idx = 0
    /\ destDirs = {}
    /\ written = <<>>
    /\ trace = <<>>
    /\ stdout = <<>>
    /\ ret = <<>>
    /\ exc = "none"
    /\ GraphIdle

Next ==
    \/ CheckTemplate /\ UNCHANGED graphVars
    \/ Discover /\ UNCHANGED graphVars
    \/ MkdirDeployment /\ UNCHANGED graphVars
    \/ Loop /\ UNCHANGED graphVars
    \/ LoadGraphFormat /\ UNCHANGED graphVars
    \/ Parse /\ UNCHANGED graphVars
    \/ LoadCommonPrefixes /\ UNCHANGED graphVars
    \/ LoadHeader /\ UNCHANGED graphVars
    \/ LoadDefaultPrefix /\ UNCHANGED graphVars
    \/ SerialiseMkdir /\ UNCHANGED graphVars
    \/ Serialise /\ UNCHANGED graphVars
    \/ GetTemplate /\ UNCHANGED graphVars
    \/ Extract /\ UNCHANGED graphVars
    \/ Render /\ UNCHANGED graphVars
    \/ WriteHtml /\ UNCHANGED graphVars
    \/ PrintOutputs /\ UNCHANGED graphVars

Spec == Init /\ [][Next]_vars

-----------------------------------------------------------------------------
(* Properties of the pipeline driver. *)

\* the relative paths of what discovery finds
DiscoveredRels == {RelativeTo(e) : e \in Rglob(tree, basis)}

\* the files after the one the loop is at, in the sorted discovery order
LaterFiles == {RelativeTo(source_files[j]) : j \in (idx + 1)..Len(source_files)}

\* C1: once an exception has left the pipeline of one file (or the template
\* check), the run is over: no file later in the sorted order was loaded or
\* had an artefact written, the success line was not printed and run did
\* not return 0.
C1_FailureAbortsRun ==
    exc # "none" =>
        /\ pc = "aborted"
        /\ ret # <<0>>
        /\ "Finished" \notin Range(stdout)
        /\ \A r \in LaterFiles :
             /\ \A i \in DOMAIN trace : trace[i].src # r
             /\ \A i \in DOMAIN written : written[i].src # r

C1_Witness ==
    /\ exc \in {"SerializationError", "TemplateError"}
    /\ Len(written) > 0
    /\ LaterFiles # {}

FourArtefacts(r) ==
    {[dirs |-> r.dirs, name |-> Stem(r) \o <<ext>>] : ext \in {s_ttl, s_jsonld, s_owl, s_html}}

\* C3: when run has returned 0, every discovered file has exactly its four
\* artefacts written, in destination_root / parent(R), each once, and
\* nothing else was written.
C3_FourArtefactsMirrored ==
    ret = <<0>> =>
        /\ \A r \in DiscoveredRels :
             /\ {written[i].path : i \in {j \in DOMAIN written : written[j].src = r}}
                  = FourArtefacts(r)
             /\ r.dirs \in destDirs
        /\ {written[i].src : i \in DOMAIN written} = DiscoveredRels
        /\ Len(written) = 4 * Cardinality(DiscoveredRels)

C3_Witness ==
    /\ ret = <<0>>
    /\ Cardinality(DiscoveredRels) = 2
    /\ \E r \in DiscoveredRels : r.dirs # <<>>
    /\ \E r \in DiscoveredRels : Len(Stem(r)) = 2

\* the event op happened for file r before position i of the trace
Before(i, r, op) == \E j \in 1..(i - 1) : trace[j].src = r /\ trace[j].op = op

AllSerialised(i, r) ==
    /\ Before(i, r, "write_ttl")
    /\ Before(i, r, "write_jsonld")
    /\ Before(i, r, "write_owl")

ExtractorOps == {"collect_ontology_info", "collect_classes", "collect_properties",
                 "compute_used_prefixes"}

\* C7 (as amended): per file, the serializations are written .ttl, .jsonld,
\* .owl in that order and only after load_graph returned; everything
\* render_html does (template lookup, the metadata extraction for the
\* catalogue, rendering, writing the .html) happens only after the three
\* serializations were written; the .html is the last artefact written for
\* the file.  The one extraction outside render_html is load_graph's own
\* collect_ontology_info, which runs before any serialization.
C7_StageOrder ==
    /\ \A i \in DOMAIN trace :
         LET e == trace[i] IN
         /\ e.op = "loaded" =>
              (Before(i, e.src, "parse") /\ Before(i, e.src, "ensure_default_prefix"))
         /\ e.op = "write_ttl" => Before(i, e.src, "loaded")
         /\ e.op = "write_jsonld" => Before(i, e.src, "write_ttl")
         /\ e.op = "write_owl" => Before(i, e.src, "write_jsonld")
         /\ e.by = "render_html" => AllSerialised(i, e.src)
         /\ e.op = "render" => Before(i, e.src, "collect_properties")
         /\ e.op = "write_html" => Before(i, e.src, "render")
         /\ (e.by = "load_graph" /\ e.op \in ExtractorOps) =>
              ~ Before(i, e.src, "write_ttl")
    /\ \A i \in DOMAIN written :
         Last(written[i].path.name) = s_html =>
             \A j \in DOMAIN written : written[j].src = written[i].src => j <= i

C7_Witness ==
    /\ pc = "print_outputs"
    /\ idx = 2

\* C7 (as claimed): every metadata extraction of a file happens only after
\* its three serializations were written.
C7_AsClaimed ==
    \A i \in DOMAIN trace :
        trace[i].op \in ExtractorOps => AllSerialised(i, trace[i].src)

-----------------------------------------------------------------------------
(* RDF terms and the graph.  A term is a URIRef, a BNode or a Literal; val *)
(* is its string (for a URIRef the full identifier), lang the language tag *)
(* of a literal.  Identifiers are shortened so that they stay small.       *)

URIRef(v) == [kind |-> "URIRef", val |-> v, lang |-> "None"]

BNode(v) == [kind |-> "BNode", val |-> v, lang |-> "None"]

Literal(v, l) == [kind |-> "Literal", val |-> v, lang |-> l]

\* str(term)
Str(term) == term.val

\* the namespaces RDF, RDFS, OWL, SKOS, DCTERMS of rdflib.namespace
NS_RDF == <<"r", "d", "f", "#">>
NS_RDFS == <<"r", "d", "f", "s", "#">>
NS_OWL == <<"o", "w", "l", "#">>
NS_SKOS == <<"s", "k", "o", "s", "#">>
NS_DCTERMS == <<"d", "c", "/">>

RDF_type == URIRef(NS_RDF \o <<"t", "y", "p", "e">>)
RDF_Property == URIRef(NS_RDF \o <<"p", "r", "o", "p">>)
RDFS_label == URIRef(NS_RDFS \o <<"l", "a", "b", "e", "l">>)
OWL_Ontology == URIRef(NS_OWL \o <<"o", "n", "t">>)
OWL_Class == URIRef(NS_OWL \o <<"c", "l", "a", "s", "s">>)
OWL_ObjectProperty == URIRef(NS_OWL \o <<"o", "p">>)
OWL_DatatypeProperty == URIRef(NS_OWL \o <<"d", "p">>)
OWL_inverseOf == URIRef(NS_OWL \o <<"i", "n", "v">>)
DCTERMS_title == URIRef(NS_DCTERMS \o <<"t", "i", "t", "l", "e">>)
DCTERMS_description == URIRef(NS_DCTERMS \o <<"d", "e", "s", "c">>)

\* Optional[...]: <<>> is None, <<x>> is the value x
None == <<>>

Some(x) == <<x>>

\* the first occurrence of every element of a sequence, in order
RECURSIVE Dedup(_)
Dedup(sq) ==
    IF sq = <<>> THEN <<>>
    ELSE LET rest == Dedup(Front(sq))
         IN  IF Last(sq) \in Range(rest) THEN rest ELSE Append(rest, Last(sq))

RECURSIVE Reverse(_)
Reverse(sq) == IF sq = <<>> THEN <<>> ELSE Append(Reverse(Tail(sq)), sq[1])

\* list.sort(key=...) on a sequence of [key, item]: stable, ascending; a key
\* is a tuple of strings
RECURSIVE InsertByKey(_, _)
InsertByKey(srt, x) ==
    IF srt = <<>> THEN <<x>>
    ELSE IF SeqLess(x.key, srt[1].key) THEN <<x>> \o srt
    ELSE <<srt[1]>> \o InsertByKey(Tail(srt), x)

RECURSIVE StableSort(_)
StableSort(sq) ==
    IF sq = <<>> THEN <<>>
    ELSE InsertByKey(StableSort(Front(sq)), Last(sq))

Items(sq) == [i \in 1..Len(sq) |-> sq[i].item]

-----------------------------------------------------------------------------
(* The namespace manager: the bindings are pairs <<prefix, namespace>>; the *)
(* store keeps one namespace per prefix and one prefix per namespace.       *)
(* bind is what the script calls at lines 100 and 115; its effect is that   *)
(* of rdflib's NamespaceManager.bind on the in-memory store.                *)

\* store.namespace(prefix)
NamespaceOf(nmgr, prefix) ==
    IF \E b \in nmgr : b[1] = prefix
    THEN Some((CHOOSE b \in nmgr : b[1] = prefix)[2]) ELSE None

\* store.prefix(namespace)
PrefixOf(nmgr, namespace) ==
    IF \E b \in nmgr : b[2] = namespace
    THEN Some((CHOOSE b \in nmgr : b[2] = namespace)[1]) ELSE None

\* store.bind(prefix, namespace, override=True): what the prefix and the
\* namespace were bound to before is dropped
StoreBind(nmgr, prefix, namespace) ==
    {b \in nmgr : b[1] # prefix /\ b[2] # namespace} \cup {<<prefix, namespace>>}

p_default == <<"d", "e", "f", "a", "u", "l", "t">>

\* "%s%s" % (prefix, num)
Numbered == <<"1", "2", "3", "4">>

\* bind(..., replace=False) on a prefix in use for another namespace: append
\* a number to the prefix until one is free; None when a numbered prefix is
\* already bound to the namespace
RECURSIVE NewPrefix(_, _, _, _)
NewPrefix(nmgr, prefix, namespace, num) ==
    LET new_prefix == Append(prefix, Numbered[num])
        tnamespace == NamespaceOf(nmgr, new_prefix)
    IN  IF tnamespace = Some(namespace) THEN None
        ELSE IF tnamespace = None \/ num = Len(Numbered) THEN Some(new_prefix)
        ELSE NewPrefix(nmgr, prefix, namespace, num + 1)

\* namespace_manager.bind(prefix, namespace, replace=False); override keeps
\* its default, True
Bind(nmgr, prefix, namespace) ==
    LET bound_namespace == NamespaceOf(nmgr, prefix)
    IN  IF bound_namespace # None /\ bound_namespace[1] # <<>>
           /\ bound_namespace[1] # namespace
        THEN LET new_prefix == NewPrefix(nmgr, IF prefix = <<>> THEN p_default ELSE prefix,
                                         namespace, 1)
             IN  IF new_prefix = None THEN nmgr
                 ELSE StoreBind(nmgr, new_prefix[1], namespace)
        ELSE LET bound_prefix == PrefixOf(nmgr, namespace)
             IN  IF bound_prefix = None THEN StoreBind(nmgr, prefix, namespace)
                 ELSE IF bound_prefix[1] = prefix THEN nmgr
                 ELSE StoreBind(nmgr, prefix, namespace)

p_rdf == <<"r", "d", "f">>
p_rdfs == <<"r", "d", "f", "s">>
p_owl == <<"o", "w", "l">>
p_skos == <<"s", "k", "o", "s">>
p_dcterms == <<"d", "c", "t", "e", "r", "m", "s">>

\* the dict "common" of ensure_common_prefixes, in its order
Common == << <<p_rdf, NS_RDF>>, <<p_rdfs, NS_RDFS>>, <<p_owl, NS_OWL>>,
             <<p_skos, NS_SKOS>>, <<p_dcterms, NS_DCTERMS>> >>

RECURSIVE BindAll(_, _)
BindAll(nmgr, sq) ==
    IF sq = <<>> THEN nmgr
    ELSE BindAll(Bind(nmgr, sq[1][1], sq[1][2]), Tail(sq))

ensure_common_prefixes(nmgr) == BindAll(nmgr, Common)

\* base_ns of ensure_default_prefix
BaseNs(ontology_iri) ==
    IF EndsWithHashOrSlash(ontology_iri) THEN ontology_iri
    ELSE Append(ontology_iri, "#")

\* ontology_iri is Optional[str]; "if not ontology_iri: return"
ensure_default_prefix(nmgr, ontology_iri) ==
    IF ontology_iri = None \/ ontology_iri[1] = <<>> THEN nmgr
    ELSE Bind(nmgr, <<>>, BaseNs(ontology_iri[1]))

-----------------------------------------------------------------------------
(* Compact names: qname and the normalizeUri of rdflib it calls. *)

IsNameChar(c) == c \in LowerCase \cup UpperCase \cup Digits

IsStartChar(c) == c \in LowerCase \cup UpperCase

\* rdflib's split_uri: from the end, the first character that cannot be
\* part of a name; the local name starts at the first letter after it.
\* <<>> when the identifier cannot be split (split_uri raises)
SplitUri(uri) ==
    LET nonName == {i \in 1..Len(uri) : ~IsNameChar(uri[i])}
    IN  IF nonName = {} THEN <<>>
        ELSE LET i0 == CHOOSE i \in nonName : \A k \in nonName : k <= i
                 starts == {j \in i0..Len(uri) : IsStartChar(uri[j])}
             IN  IF starts = {} THEN <<>>
                 ELSE LET j0 == CHOOSE j \in starts : \A k \in starts : j <= k
                      IN  <<SubSeq(uri, 1, j0 - 1), SubSeq(uri, j0, Len(uri))>>

\* "<%s>" % term
N3(term) == <<"<">> \o Str(term) \o <<">">>

\* namespace_manager.normalizeUri(term): prefix:name when the namespace of
\* the term is bound, the N3 form <identifier> otherwise
NormalizeUri(nmgr, term) ==
    LET sp == SplitUri(Str(term))
    IN  IF sp = <<>> THEN N3(term)
        ELSE LET prefix == PrefixOf(nmgr, sp[1])
             IN  IF prefix = None THEN N3(term)
                 ELSE prefix[1] \o <<":">> \o sp[2]

\* qname: normalizeUri, and str(term) when it raises
qname(nmgr, raises, term) ==
    IF term \in raises THEN Str(term) ELSE NormalizeUri(nmgr, term)

-----------------------------------------------------------------------------
(* Reading the graph.  The store yields the triples of a graph in an order *)
(* of its own; two orders are modelled, one the reverse of the other.      *)

\* the subjects used in the modelled graphs
e_o == URIRef(<<"e", "/", "o">>)
e_o2 == URIRef(<<"e", "/">>)
e_A == URIRef(<<"e", "/", "A">>)
e_b == URIRef(<<"e", "/", "b">>)
e_p == URIRef(<<"e", "/", "p">>)
e_q == URIRef(<<"e", "/", "q">>)
x_p == URIRef(<<"x", "#", "p">>)
b_1 == BNode(<<"n", "1">>)

\* the triples about an ontology header
HeaderTriples ==
    << <<e_o, RDF_type, OWL_Ontology>>,
       <<e_o2, RDF_type, OWL_Ontology>>,
       <<e_o, DCTERMS_title, Literal(<<"t">>, "en")>>,
       <<e_o, DCTERMS_title, Literal(<<"u">>, "fr")>>,
       <<e_o, DCTERMS_title, Literal(<<"w">>, "None")>>,
       <<e_o, DCTERMS_title, Literal(<<>>, "en")>>,
       <<e_o, DCTERMS_title, e_A>>,
       <<e_o, DCTERMS_description, Literal(<<"d">>, "fr")>>,
       <<e_o, DCTERMS_description, Literal(<<>>, "None")>> >>

\* the triples about classes
ClassTriples ==
    << <<e_A, RDF_type, OWL_Class>>,
       <<e_b, RDF_type, OWL_Class>>,
       <<b_1, RDF_type, OWL_Class>>,
       <<e_A, RDFS_label, Literal(<<"B">>, "fr")>>,
       <<e_A, RDFS_label, Literal(<<"a">>, "None")>>,
       <<e_A, RDFS_label, Literal(<<"a", "b">>, "en")>>,
       <<e_b, RDFS_label, Literal(<<"b">>, "en")>>,
       <<e_b, RDFS_label, Literal(<<"A">>, "en")>> >>

\* the triples about properties
PropertyTriples ==
    << <<e_p, RDF_type, OWL_ObjectProperty>>,
       <<e_p, RDF_type, OWL_DatatypeProperty>>,
       <<e_p, RDF_type, RDF_Property>>,
       <<e_q, RDF_type, OWL_DatatypeProperty>>,
       <<e_q, RDF_type, RDF_Property>>,
       <<x_p, RDF_type, RDF_Property>>,
       <<b_1, RDF_type, OWL_ObjectProperty>>,
       <<e_p, OWL_inverseOf, e_q>>,
       <<e_q, OWL_inverseOf, e_p>>,
       <<e_p, OWL_inverseOf, x_p>>,
       <<b_1, OWL_inverseOf, e_p>>,
       <<e_q, OWL_inverseOf, Literal(<<"a">>, "None")>>,
       <<e_q, RDFS_label, Literal(<<"A">>, "en")>> >>

Universe == HeaderTriples \o ClassTriples \o PropertyTriples

\* the triples of the graph in the order the store yields them
Iter(gr, rev) ==
    SelectSeq(IF rev THEN Reverse(Universe) ELSE Universe, LAMBDA t : t \in gr)

\* graph.objects(s, p)
Objects(it, sub, pred) ==
    LET hits == SelectSeq(it, LAMBDA t : t[1] = sub /\ t[2] = pred)
    IN  [i \in 1..Len(hits) |-> hits[i][3]]

\* graph.subjects(p, o)
Subjects(it, pred, obj) ==
    LET hits == SelectSeq(it, LAMBDA t : t[2] = pred /\ t[3] = obj)
    IN  [i \in 1..Len(hits) |-> hits[i][1]]

\* [o for o in ... if isinstance(o, URIRef)]
OnlyURIRefs(sq) == SelectSeq(sq, LAMBDA o : o.kind = "URIRef")

\* get_literals(graph, s, p)
get_literals(it, sub, pred) ==
    SelectSeq(Objects(it, sub, pred), LAMBDA o : o.kind = "Literal")

\* literal_by_lang(values)[0] with preferred = ["en"]: by_lang keeps, per
\* language, the last literal of the list
literal_by_lang(values) ==
    LET en == {i \in 1..Len(values) : values[i].lang = "en"}
    IN  IF en # {} THEN Some(values[CHOOSE i \in en : \A k \in en : k <= i])
        ELSE IF values # <<>> THEN Some(values[1])
        ELSE None

\* bool(literal), rdflib's Literal.__bool__, of a plain or language-tagged
\* literal: len(literal) != 0
LiteralBool(lit) == Str(lit) # <<>>

\* "if title_literal:" on an Optional[Literal]
Truthy(opt) == opt # None /\ LiteralBool(opt[1])

\* collect_ontology_info(g)
collect_ontology_info(it) ==
    LET ontologies == Subjects(it, RDF_type, OWL_Ontology)
    IN  IF ontologies = <<>>
        THEN [iri |-> None, title |-> None, description |-> None]
        ELSE LET ont == ontologies[1]
                 title_literal == literal_by_lang(get_literals(it, ont, DCTERMS_title))
                 desc_literal == literal_by_lang(get_literals(it, ont, DCTERMS_description))
             IN  [iri |-> Some(Str(ont)),
                  title |-> IF Truthy(title_literal) THEN Some(Str(title_literal[1])) ELSE None,
                  description |-> IF Truthy(desc_literal) THEN Some(Str(desc_literal[1])) ELSE None]

\* the label of a descriptor
LabelOf(it, nmgr, raises, sub) ==
    LET label_literal == literal_by_lang(get_literals(it, sub, RDFS_label))
    IN  IF Truthy(label_literal) THEN Str(label_literal[1]) ELSE qname(nmgr, raises, sub)

\* a key that leaves the case of the label as it is
SortKeyRaw(x) == <<x.label, x.qname>>

\* key=lambda x: (x.label.lower(), x.qname)
SortKey(x) == <<Lower(x.label), x.qname>>

Keyed(sq) == [i \in 1..Len(sq) |-> [key |-> SortKey(sq[i]), item |-> sq[i]]]

\* collect_classes(g); of a descriptor the identifier, the compact name and
\* the label are kept
collect_classes(it, nmgr, raises) ==
    LET cls == Dedup(Subjects(it, RDF_type, OWL_Class))
        items == [i \in 1..Len(cls) |->
                    [iri |-> Str(cls[i]),
                     qname |-> qname(nmgr, raises, cls[i]),
                     label |-> LabelOf(it, nmgr, raises, cls[i])]]
    IN  Items(StableSort(Keyed(items)))

\* the two tests of property_kind exchanged
property_kind_datatype_first(gr, term) ==
    IF <<term, RDF_type, OWL_DatatypeProperty>> \in gr THEN "DatatypeProperty"
    ELSE IF <<term, RDF_type, OWL_ObjectProperty>> \in gr THEN "ObjectProperty"
    ELSE "Property"

\* property_kind(g, term)
property_kind(gr, term) ==
    IF <<term, RDF_type, OWL_ObjectProperty>> \in gr THEN "ObjectProperty"
    ELSE IF <<term, RDF_type, OWL_DatatypeProperty>> \in gr THEN "DatatypeProperty"
    ELSE "Property"

\* the inverses of collect_properties: both directions, URIRefs only, sorted
\* by compact name
Inverses(it, nmgr, raises, sub) ==
    LET inverses_set == Dedup(OnlyURIRefs(Objects(it, sub, OWL_inverseOf))
                              \o OnlyURIRefs(Subjects(it, OWL_inverseOf, sub)))
        keyed == [i \in 1..Len(inverses_set) |->
                    [key |-> <<qname(nmgr, raises, inverses_set[i])>>,
                     item |-> qname(nmgr, raises, inverses_set[i])]]
    IN  Items(StableSort(keyed))

\* collect_properties(g); of a descriptor the identifier, the compact name,
\* the label, the kind and the inverses are kept
collect_properties(gr, it, nmgr, raises) ==
    LET props == Dedup(Subjects(it, RDF_type, OWL_ObjectProperty)
                       \o Subjects(it, RDF_type, OWL_DatatypeProperty)
                       \o Subjects(it, RDF_type, RDF_Property))
        items == [i \in 1..Len(props) |->
                    [iri |-> Str(props[i]),
                     qname |-> qname(nmgr, raises, props[i]),
                     label |-> LabelOf(it, nmgr, raises, props[i]),
                     kind |-> property_kind(gr, props[i]),
                     inverses |-> Inverses(it, nmgr, raises, props[i])]]
    IN  Items(StableSort(Keyed(items)))

-----------------------------------------------------------------------------
(* The metadata extractor at work on one graph: render_html's calls of     *)
(* collect_ontology_info, collect_classes and collect_properties, made     *)
(* twice on the same graph.                                                *)

RunIdle ==
    /\ template_exists = TRUE /\ tree = {} /\ basis = s_ttl /\ pc = "off"
    /\ source_files = <<>> /\ idx = 0 /\ destDirs = {} /\ written = <<>>
    /\ trace = <<>> /\ stdout = <<>> /\ ret = <<>> /\ exc = "none"

NoHeader == [iri |-> None, title |-> None, description |-> None]

\* the graphs: up to MaxTriples triples about a header, about classes or
\* about properties
Graphs ==
    UNION {{gr \in SUBSET Range(fam) : Cardinality(gr) <= MaxTriples} :
              fam \in {HeaderTriples, ClassTriples, PropertyTriples}}

p_ex == <<"e", "x">>
NS_E == <<"e", "/">>

InitExtract ==
    /\ RunIdle
    /\ g \in Graphs
    /\ nm \in {{}, {<<p_ex, NS_E>>}}
    /\ fileNm = nm
    /\ raisesOn \in {{}, {e_q}}
    /\ revIter = FALSE
    /\ gpc = "loaded"
    /\ header = NoHeader
    /\ classes = <<>>
    /\ prevClasses = <<>>
    /\ properties = <<>>
    /\ qterm = None
    /\ qres = None

\* ontology = collect_ontology_info(graph)
CollectOntologyInfo ==
    /\ gpc \in {"loaded", "again"}
    /\ \E rev \in BOOLEAN :
         /\ revIter' = rev
         /\ header' = collect_ontology_info(Iter(g, rev))
    /\ gpc' = IF gpc = "loaded" THEN "header" ELSE "header2"
    /\ UNCHANGED <<g, nm, fileNm, raisesOn, classes, prevClasses, properties,
                   qterm, qres>>

\* classes = collect_classes(graph)
CollectClasses ==
    /\ gpc \in {"header", "header2"}
    /\ \E rev \in BOOLEAN :
         /\ revIter' = rev
         /\ classes' = collect_classes(Iter(g, rev), nm, raisesOn)
    /\ prevClasses' = classes
    /\ gpc' = IF gpc = "header" THEN "classes" ELSE "classes2"
    /\ UNCHANGED <<g, nm, fileNm, raisesOn, header, properties, qterm, qres>>

\* properties = collect_properties(graph)
CollectProperties ==
    /\ gpc \in {"classes", "classes2"}
    /\ \E rev \in BOOLEAN :
         /\ revIter' = rev
         /\ properties' = collect_properties(g, Iter(g, rev), nm, raisesOn)
    /\ gpc' = IF gpc = "classes" THEN "properties" ELSE "properties2"
    /\ UNCHANGED <<g, nm, fileNm, raisesOn, header, classes, prevClasses,
                   qterm, qres>>

\* the extraction is run once more on the unchanged graph
Rerun ==
    /\ gpc = "properties"
    /\ gpc' = "again"
    /\ UNCHANGED <<g, revIter, nm, fileNm, raisesOn, header, classes,
                   prevClasses, properties, qterm, qres>>

NextExtract ==
    \/ CollectOntologyInfo /\ UNCHANGED runVars
    \/ CollectClasses /\ UNCHANGED runVars
    \/ CollectProperties /\ UNCHANGED runVars
    \/ Rerun /\ UNCHANGED runVars

SpecExtract == InitExtract /\ [][NextExtract]_vars

-----------------------------------------------------------------------------
(* load_graph after the parse: prefix registration, and compact names on   *)
(* the loaded graph.                                                       *)

p_r == <<"r">>
NS_O == <<"e", "/", "o", "#">>
NS_X == <<"x", "#">>

\* what a source file may bind: one namespace per prefix, one prefix per
\* namespace
FileBindings ==
    {b \in SUBSET ({<<>>, p_rdf, p_r, p_ex} \X {NS_RDF, NS_E, NS_O, NS_X}) :
        /\ Cardinality(b) <= MaxBindings
        /\ \A x \in b : \A y \in b : (x[1] = y[1] \/ x[2] = y[2]) => x = y}

QTerms == {e_p, e_o, x_p, b_1, RDF_type}

InitLoad ==
    /\ RunIdle
    /\ g \in {{}, {<<e_o, RDF_type, OWL_Ontology>>}, {<<e_o2, RDF_type, OWL_Ontology>>}}
    /\ fileNm \in FileBindings
    /\ nm = fileNm
    /\ raisesOn \in {{}, {x_p}}
    /\ revIter = FALSE
    /\ gpc = "parsed"
    /\ header = NoHeader
    /\ classes = <<>>
    /\ prevClasses = <<>>
    /\ properties = <<>>
    /\ qterm = None
    /\ qres = None

\* ensure_common_prefixes(g)
EnsureCommonPrefixes ==
    /\ gpc = "parsed"
    /\ nm' = ensure_common_prefixes(nm)
    /\ gpc' = "common"
    /\ UNCHANGED <<g, revIter, fileNm, raisesOn, header, classes, prevClasses,
                   properties, qterm, qres>>

\* header = collect_ontology_info(g)
CollectHeader ==
    /\ gpc = "common"
    /\ header' = collect_ontology_info(Iter(g, revIter))
    /\ gpc' = "header"
    /\ UNCHANGED <<g, revIter, nm, fileNm, raisesOn, classes, prevClasses,
                   properties, qterm, qres>>

\* ensure_default_prefix(g, header.iri)
EnsureDefaultPrefix ==
    /\ gpc = "header"
    /\ nm' = ensure_default_prefix(nm, header.iri)
    /\ gpc' = "bound"
    /\ UNCHANGED <<g, revIter, fileNm, raisesOn, header, classes, prevClasses,
                   properties, qterm, qres>>

\* qname(graph, term) on the loaded graph
Qname ==
    /\ gpc = "bound"
    /\ \E term \in QTerms :
         /\ qterm' = Some(term)
         /\ qres' = Some(qname(nm, raisesOn, term))
    /\ UNCHANGED <<g, revIter, nm, fileNm, raisesOn, gpc, header, classes,
                   prevClasses, properties>>

NextLoad ==
    \/ EnsureCommonPrefixes /\ UNCHANGED runVars
    \/ CollectHeader /\ UNCHANGED runVars
    \/ EnsureDefaultPrefix /\ UNCHANGED runVars
    \/ Qname /\ UNCHANGED runVars

SpecLoad == InitLoad /\ [][NextLoad]_vars

-----------------------------------------------------------------------------
(* Properties of the metadata extractor. *)

\* s <= t for two tuples of strings
SeqLeq(s, t) == ~ SeqLess(t, s)

NoDuplicates(sq) == \A i \in 1..Len(sq) : \A j \in 1..Len(sq) : sq[i] = sq[j] => i = j

SubjectsTyped(types) == {t[1] : t \in {u \in g : u[2] = RDF_type /\ u[3] \in types}}

ClassSubjects == SubjectsTyped({OWL_Class})

PropertySubjects ==
    SubjectsTyped({OWL_ObjectProperty, OWL_DatatypeProperty, RDF_Property})

\* the label literals of a subject in the graph
LabelLiterals(sub) ==
    {t[3] : t \in {u \in g : u[1] = sub /\ u[2] = RDFS_label /\ u[3].kind = "Literal"}}

\* the choice of literal_by_lang among the labels does not depend on the
\* order in which they are met: one English label, or none and at most one
\* label at all
LabelUnambiguous(sub) ==
    LET en == {l \in LabelLiterals(sub) : l.lang = "en"}
    IN  \/ Cardinality(en) = 1
        \/ (en = {} /\ Cardinality(LabelLiterals(sub)) <= 1)

ClassesCollected == gpc \in {"classes", "properties", "again", "header2", "classes2", "properties2"}

\* one descriptor per distinct Class subject, the label the compact name
\* where the subject has no label literal, ascending by (lowercased label,
\* compact name)
ClassListShape ==
    /\ Len(classes) = Cardinality(ClassSubjects)
    /\ {classes[i].iri : i \in DOMAIN classes} = {Str(sub) : sub \in ClassSubjects}
    /\ \A i \in DOMAIN classes :
         /\ classes[i].qname = qname(nm, raisesOn, CHOOSE sub \in ClassSubjects : Str(sub) = classes[i].iri)
         /\ LabelLiterals(CHOOSE sub \in ClassSubjects : Str(sub) = classes[i].iri) = {}
              => classes[i].label = classes[i].qname
    /\ \A i \in DOMAIN classes : \A j \in DOMAIN classes :
         i < j => SeqLeq(<<Lower(classes[i].label), classes[i].qname>>,
                         <<Lower(classes[j].label), classes[j].qname>>)

\* C6 (as amended): collect_classes returns one descriptor per distinct
\* subject asserted as Class, the label defaulting to the compact name when
\* no label literal exists, sorted ascending by (lowercased label, compact
\* name); a second extraction on the unchanged graph yields the same list,
\* whatever the iteration order, when every class has an unambiguous label
\* choice (exactly one English label literal, or no English one and at most
\* one label literal).
C6_ClassListSorted ==
    ClassesCollected =>
        /\ ClassListShape
        /\ (gpc \in {"classes2", "properties2"} /\ \A sub \in ClassSubjects : LabelUnambiguous(sub))
             => prevClasses = classes

C6_Witness ==
    /\ gpc = "classes2"
    /\ revIter
    /\ Len(classes) >= 2
    /\ \E i \in DOMAIN classes : classes[i].label # classes[i].qname
    /\ \E i \in DOMAIN classes : classes[i].label = classes[i].qname
    /\ \A sub \in ClassSubjects : LabelUnambiguous(sub)

\* C6 (as claimed): the list has that shape, and a second extraction on the
\* unchanged graph yields the same list whatever the iteration order of the
\* triples.
C6_AsClaimed ==
    ClassesCollected =>
        /\ ClassListShape
        /\ gpc \in {"classes2", "properties2"} => prevClasses = classes

PropertiesCollected == gpc \in {"properties", "again", "header2", "classes2", "properties2"}

SubjectOf(d) == CHOOSE sub \in PropertySubjects : Str(sub) = d.iri

\* one descriptor per distinct property subject, its kind by the precedence
\* ObjectProperty, DatatypeProperty, generic, the generic tag being tag
KindsWithGenericTag(tag) ==
    /\ Len(properties) = Cardinality(PropertySubjects)
    /\ {properties[i].iri : i \in DOMAIN properties} = {Str(sub) : sub \in PropertySubjects}
    /\ \A i \in DOMAIN properties :
         /\ properties[i].kind \in {"ObjectProperty", "DatatypeProperty", tag}
         /\ properties[i].kind =
              IF <<SubjectOf(properties[i]), RDF_type, OWL_ObjectProperty>> \in g
              THEN "ObjectProperty"
              ELSE IF <<SubjectOf(properties[i]), RDF_type, OWL_DatatypeProperty>> \in g
              THEN "DatatypeProperty"
              ELSE tag

\* C8 (as amended): collect_properties yields one descriptor per distinct
\* subject asserted as ObjectProperty, DatatypeProperty or rdf:Property; the
\* kind tag is one of "ObjectProperty", "DatatypeProperty", "Property":
\* ObjectProperty if asserted, otherwise DatatypeProperty if asserted,
\* otherwise "Property".
C8_PropertyKinds == PropertiesCollected => KindsWithGenericTag("Property")

C8_Witness ==
    /\ gpc = "properties"
    /\ <<e_p, RDF_type, OWL_ObjectProperty>> \in g
    /\ <<e_p, RDF_type, OWL_DatatypeProperty>> \in g
    /\ <<e_q, RDF_type, OWL_DatatypeProperty>> \in g
    /\ <<e_q, RDF_type, RDF_Property>> \in g

\* C8 (as claimed): the same with the generic tag "GenericProperty".
C8_AsClaimed == PropertiesCollected => KindsWithGenericTag("GenericProperty")

\* C4: for two properties with descriptors, an inverse-of assertion between
\* them in either direction puts the compact name of each into the inverse
\* list of the other; every inverse list is without duplicates and sorted
\* by compact name.
C4_InverseSymmetric ==
    PropertiesCollected =>
        /\ \A i \in DOMAIN properties : \A j \in DOMAIN properties :
             LET a == SubjectOf(properties[i])
                 b == SubjectOf(properties[j])
             IN  (<<a, OWL_inverseOf, b>> \in g \/ <<b, OWL_inverseOf, a>> \in g)
                   => /\ properties[j].qname \in Range(properties[i].inverses)
                      /\ properties[i].qname \in Range(properties[j].inverses)
        /\ \A i \in DOMAIN properties :
             LET inv == properties[i].inverses
             IN  /\ NoDuplicates(inv)
                 /\ \A k \in 1..(Len(inv) - 1) : SeqLeq(<<inv[k]>>, <<inv[k + 1]>>)

\* the title the claim names, given the title literals of the ontology
\* subject in the order the store yields them: Some(one of the English
\* ones), else Some(the first), else None
ClaimedChoices(values) ==
    LET en == {i \in 1..Len(values) : values[i].lang = "en"}
    IN  IF en # {} THEN {Some(Str(values[i])) : i \in en}
        ELSE IF values # <<>> THEN {Some(Str(values[1]))}
        ELSE {None}

\* C5: the title of the header is the English title literal if there is
\* one, else the first title literal, and absent exactly when the ontology
\* subject has no title literal; the same for the description.
C5_TitleChoice ==
    (gpc \in {"header", "header2"} /\ header.iri # None) =>
        LET it == Iter(g, revIter)
            ont == Subjects(it, RDF_type, OWL_Ontology)[1]
            titles == get_literals(it, ont, DCTERMS_title)
            descriptions == get_literals(it, ont, DCTERMS_description)
        IN  /\ header.title \in ClaimedChoices(titles)
            /\ header.title = None <=> titles = <<>>
            /\ header.description \in ClaimedChoices(descriptions)
            /\ header.description = None <=> descriptions = <<>>

-----------------------------------------------------------------------------
(* Properties of load_graph's prefix registration and of qname. *)

\* the registrations load_graph asks for
Requested ==
    Range(Common) \cup
    (IF header.iri = None THEN {} ELSE {<< <<>>, BaseNs(header.iri[1]) >>})

\* C9: after load_graph's registrations every binding of the source file is
\* still there, unchanged; a registration that conflicts with an existing
\* binding is skipped, so only requested bindings were added; the default
\* prefix was bound, to the ontology identifier with "#" appended unless it
\* ends in "#" or "/", only when the file had no default binding.
C9_RegistrationOnlyAdds ==
    gpc = "bound" =>
        /\ fileNm \subseteq nm
        /\ (nm \ fileNm) \subseteq Requested
        /\ \A b \in nm \ fileNm :
             b[1] = <<>> => (NamespaceOf(fileNm, <<>>) = None /\ header.iri # None
                             /\ b[2] = BaseNs(header.iri[1]))

\* C10: qname returns the prefixed form for a term whose namespace is
\* registered, and the full identifier string, unmodified, for a term with
\* no registered prefix and for a term on which prefix resolution fails.
C10_QnameFallback ==
    qterm # None =>
        LET term == qterm[1]
            sp == SplitUri(Str(term))
        IN  /\ qres # None
            /\ qres[1] =
                 IF term \notin raisesOn /\ sp # <<>> /\ PrefixOf(nm, sp[1]) # None
                 THEN PrefixOf(nm, sp[1])[1] \o <<":">> \o sp[2]
                 ELSE Str(term)
====
